---------------------------- MODULE Spec2Model ----------------------------
(***************************************************************************)
(* A model of the spring engine of src/src/App.js: getSpringOptions,      *)
(* findSpring, approximateRoot, spring (its resolveSpring closures, next   *)
(* and toString), calcGeneratorVelocity, calcGeneratorDuration and         *)
(* generateLinearEasing.                                                   *)
(*                                                                         *)
(* Numbers.  A JavaScript number is modelled as a decimal floating-point   *)
(* value with a six-digit mantissa, [k |-> "num", m |-> mantissa,          *)
(* e |-> exponent] standing for m * 10^e, plus the special values NaN,     *)
(* +Infinity and -Infinity with IEEE-754's rules for them.  Every          *)
(* arithmetic operation rounds its result to six digits, as a double       *)
(* rounds to 53 bits; a signed zero is not told apart from zero.           *)
(*                                                                         *)
(* Decimal rounding cannot show what ms / 1000 * 1000 does in binary      *)
(* (lines 5-6, 243 and 284), since a division by 1000 is exact in decimal. *)
(* secondsToMilliseconds therefore also computes, exactly and on 53-bit    *)
(* significands, whether the double it returns lies below, on or above the *)
(* decimal product, and records the answer in the number's field u         *)
(* (-1, 0 or 1).  Comparisons order equal decimal values by u.             *)
(***************************************************************************)
EXTENDS Integers, Sequences, FiniteSets, TLC

(***************************************************************************)
(* Decimal floating point                                                  *)
(***************************************************************************)
Pow10(n) == 10 ^ n

\* Mantissas lie in 10^5 .. 10^6 - 1, so that the product of a mantissa and
\* half of another fits the checker's 32-bit integers.
MantissaTop == Pow10(6)

Zero == [k |-> "num", m |-> 0, e |-> 0, u |-> 0]

NaN == [k |-> "nan", m |-> 0, e |-> 0, u |-> 0]

PosInf == [k |-> "inf", m |-> 1, e |-> 0, u |-> 0]

NegInf == [k |-> "inf", m |-> -1, e |-> 0, u |-> 0]

IAbs(i) == IF i < 0 THEN -i ELSE i

ISign(i) == IF i < 0 THEN -1 ELSE IF i > 0 THEN 1 ELSE 0

\* The number of decimal digits of a >= 1.
NumDigits(a) ==
    IF a < 10 THEN 1 ELSE IF a < 100 THEN 2 ELSE IF a < 1000 THEN 3
    ELSE IF a < 10000 THEN 4 ELSE IF a < 100000 THEN 5
    ELSE IF a < 1000000 THEN 6 ELSE IF a < 10000000 THEN 7
    ELSE IF a < 100000000 THEN 8 ELSE IF a < 1000000000 THEN 9 ELSE 10

MantissaDigits == NumDigits(MantissaTop) - 1

\* a >= 10^6, of d digits, rounded to six: p is 10^(d - 6).
NormRound(sign, r, e) ==
    IF r >= MantissaTop
    THEN [k |-> "num", m |-> sign * (MantissaTop \div 10), e |-> e + 1,
          u |-> 0]
    ELSE [k |-> "num", m |-> sign * r, e |-> e, u |-> 0]

NormDigits(m, e, a, d) ==
    IF d > MantissaDigits
    THEN NormRound(ISign(m),
                   (a + Pow10(d - MantissaDigits) \div 2)
                       \div Pow10(d - MantissaDigits),
                   e + (d - MantissaDigits))
    ELSE [k |-> "num", m |-> m * Pow10(MantissaDigits - d),
          e |-> e - (MantissaDigits - d), u |-> 0]

\* m * 10^e rounded (half away from zero) to MantissaDigits digits.
Norm(m, e) ==
    IF m = 0 THEN Zero ELSE NormDigits(m, e, IAbs(m), NumDigits(IAbs(m)))

\* The number i (an integer literal of the source).
Num(i) == Norm(i, 0)

\* The decimal literal m * 10^(-d), such as Dec(3, 1) for 0.3.
Dec(m, d) == Norm(m, -d)

\* undefined, in the same shape as a number so that the two compare.
Undef == [k |-> "undef", m |-> 0, e |-> 0, u |-> 0]

\* What an object holds for a key it does not have: read, it is undefined,
\* but a spread does not copy it.
Absent == [k |-> "absent", m |-> 0, e |-> 0, u |-> 0]

\* isNaN(x), which coerces: undefined is not a number either, and arithmetic
\* on it yields NaN.
IsNaN(x) == x.k \notin {"num", "inf"}

IsNum(x) == x.k = "num"

Sgn(x) == ISign(x.m)

Neg(x) == IF IsNaN(x) THEN NaN ELSE [x EXCEPT !.m = -x.m, !.u = -x.u]

\* Math.abs
Abs(x) == IF IsNaN(x) THEN NaN ELSE IF x.m < 0 THEN Neg(x) ELSE x

\* An integer division that truncates toward zero.
TruncDiv(m, p) == IF m < 0 THEN -((-m) \div p) ELSE m \div p

\* hi.e >= lo.e, neither is zero, and d = hi.e - lo.e.
AddAligned(hi, lo, d) ==
    IF d >= MantissaDigits + 2 THEN hi
    ELSE Norm(IF d <= 3 THEN hi.m * Pow10(d) + lo.m
              ELSE hi.m * 1000 + TruncDiv(lo.m, Pow10(d - 3)),
              IF d <= 3 THEN lo.e ELSE hi.e - 3)

AddNum(x, y) ==
    IF x.m = 0 THEN y
    ELSE IF y.m = 0 THEN x
    ELSE AddAligned(IF x.e >= y.e THEN x ELSE y,
                    IF x.e >= y.e THEN y ELSE x, IAbs(x.e - y.e))

Add(x, y) ==
    IF IsNaN(x) \/ IsNaN(y) THEN NaN
    ELSE IF x.k = "inf" THEN (IF y.k = "inf" /\ y.m # x.m THEN NaN ELSE x)
    ELSE IF y.k = "inf" THEN y
    ELSE AddNum(x, y)

Sub(x, y) == Add(x, Neg(y))

\* a * b / 1000 for mantissas a and b, in two parts that fit 32 bits.
MulParts(a, b) == a * (b \div 1000) + (a * (b % 1000)) \div 1000

MulNum(x, y) ==
    Norm(ISign(x.m) * ISign(y.m) * MulParts(IAbs(x.m), IAbs(y.m)),
         x.e + y.e + 3)

Mul(x, y) ==
    IF IsNaN(x) \/ IsNaN(y) THEN NaN
    ELSE IF x.k = "inf" \/ y.k = "inf"
         THEN (IF x.m = 0 \/ y.m = 0 THEN NaN
               ELSE IF ISign(x.m) = ISign(y.m) THEN PosInf ELSE NegInf)
    ELSE MulNum(x, y)

\* floor(a * 10^7 / b) for mantissas a and b, by long division.
DivDigits3(q, r, b) == q * 10 + (r * 10) \div b

DivDigits2(q, r, b) ==
    DivDigits3(q * 1000 + (r * 1000) \div b, (r * 1000) % b, b)

DivParts(a, b) == DivDigits2((a * 1000) \div b, (a * 1000) % b, b)

DivNum(x, y) ==
    Norm(ISign(x.m) * ISign(y.m) * DivParts(IAbs(x.m), IAbs(y.m)),
         x.e - y.e - 7)

Div(x, y) ==
    IF IsNaN(x) \/ IsNaN(y) THEN NaN
    ELSE IF x.k = "inf"
         THEN (IF y.k = "inf" THEN NaN
               ELSE IF (x.m > 0) = (y.m >= 0) THEN PosInf ELSE NegInf)
    ELSE IF y.k = "inf" THEN Zero
    ELSE IF y.m = 0
         THEN (IF x.m = 0 THEN NaN ELSE IF x.m > 0 THEN PosInf ELSE NegInf)
    ELSE IF x.m = 0 THEN Zero
    ELSE DivNum(x, y)

\* x < y for numbers whose decimal difference has the sign d: equal decimal
\* values are ordered by their binary rounding.
LtNum(d, ux, uy) == d < 0 \/ (d = 0 /\ ux < uy)

\* x < y, x <= y, x === y of the source: false when either is NaN.
Lt(x, y) ==
    /\ ~IsNaN(x)
    /\ ~IsNaN(y)
    /\ x # y
    /\ IF x.k = "inf" THEN x.m < 0
       ELSE IF y.k = "inf" THEN y.m > 0
       ELSE LtNum(Sub(x, y).m, x.u, y.u)

Eq(x, y) == ~IsNaN(x) /\ ~IsNaN(y) /\ x = y

Le(x, y) == Lt(x, y) \/ Eq(x, y)

Ge(x, y) == Le(y, x)

Gt(x, y) == Lt(y, x)

\* Math.min and Math.max: NaN when either argument is.
MathMin(x, y) == IF IsNaN(x) \/ IsNaN(y) THEN NaN ELSE IF Lt(y, x) THEN y ELSE x

MathMax(x, y) == IF IsNaN(x) \/ IsNaN(y) THEN NaN ELSE IF Lt(x, y) THEN y ELSE x

\* The truthiness of a number: 0 and NaN are falsy.
Truthy(x) == ~IsNaN(x) /\ x # Zero

\* a || b on numbers.
OrElse(a, b) == IF Truthy(a) THEN a ELSE b


One == Num(1)

Two == Num(2)

\* The largest s in lo..hi with s * s <= n (lo * lo <= n).
RECURSIVE ISqrtBetween(_, _, _)
ISqrtBetween(n, lo, hi) ==
    IF lo >= hi THEN lo
    ELSE IF ((lo + hi + 1) \div 2) * ((lo + hi + 1) \div 2) <= n
         THEN ISqrtBetween(n, (lo + hi + 1) \div 2, hi)
         ELSE ISqrtBetween(n, lo, (lo + hi + 1) \div 2 - 1)

ISqrt(n) == ISqrtBetween(n, 0, 46340)

\* One Newton step from the guess g.
SqrtStep(x, g) == Div(Add(g, Div(x, g)), Two)

\* Math.sqrt: an integer square root of the mantissa, then one Newton step.
Sqrt(x) ==
    IF IsNaN(x) THEN NaN
    ELSE IF x.m < 0 THEN NaN
    ELSE IF x.k = "inf" THEN PosInf
    ELSE IF x.m = 0 THEN Zero
    ELSE SqrtStep(x, Norm(ISqrt(x.m * (IF x.e % 2 # 0 THEN 1000 ELSE 100)),
                          (IF x.e % 2 # 0 THEN x.e - 1 ELSE x.e) \div 2 - 1))

\* The terms of a series the model sums.
ExpTerms == 12

TrigTerms == 8

\* sum of r^k / k! for k = 0 .. ExpTerms, from term k on, by Horner's rule.
RECURSIVE ExpSeries(_, _)
ExpSeries(r, k) ==
    IF k > ExpTerms THEN One
    ELSE Add(One, Mul(Div(r, Num(k)), ExpSeries(r, k + 1)))

\* ln 10 in units of 10^-6.
Ln10Micro == 2302585

\* e^r * 10^n
ExpScaled(r, n) == [r EXCEPT !.e = r.e + n]

\* X = n0 * Ln10Micro + R0 is x in units of 10^-6: e^x = 10^n * e^r with r
\* the remainder nearest to 0.
ExpReduced(n0, R0) ==
    ExpScaled(ExpSeries(Norm(IF 2 * R0 > Ln10Micro THEN R0 - Ln10Micro
                             ELSE R0, -6), 1),
              IF 2 * R0 > Ln10Micro THEN n0 + 1 ELSE n0)

ExpMicro(X) == ExpReduced(X \div Ln10Micro, X % Ln10Micro)

\* Math.exp.  A double overflows to Infinity above e^709.78 and underflows
\* to 0 below e^-745.13.
Exp(x) ==
    IF IsNaN(x) THEN NaN
    ELSE IF x.k = "inf" THEN (IF x.m > 0 THEN PosInf ELSE Zero)
    ELSE IF Lt(Dec(70978, 2), x) THEN PosInf
    ELSE IF Lt(x, Dec(-74513, 2)) THEN Zero
    ELSE IF x.e < -12 THEN One
    ELSE ExpMicro(IF x.e <= -6 THEN TruncDiv(x.m, Pow10(-6 - x.e))
                  ELSE x.m * Pow10(x.e + 6))

Pi == Dec(314159, 5)

HalfPi == Dec(157080, 5)

TwoPi == Dec(628319, 5)

\* round(2 * pi * 10^d) for d = 3 .. 8.
TwoPiScaled(d) ==
    CASE d = 3 -> 6283
      [] d = 4 -> 62832
      [] d = 5 -> 628319
      [] d = 6 -> 6283185
      [] d = 7 -> 62831853
      [] OTHER -> 628318531

ReduceScaled(x, sh) == Norm((x.m * 1000) % TwoPiScaled(3 + sh), -sh - 3)

\* x >= 0 reduced modulo 2 * pi.
ReduceAngle(x) ==
    IF x.e <= -MantissaDigits THEN x
    ELSE IF x.e > 0 THEN ReduceScaled(x, 0)
    ELSE ReduceScaled(x, -x.e)

\* 1 - u2/((j+1)(j+2)) * (1 - u2/((j+3)(j+4)) * ...), to TrigTerms factors.
RECURSIVE TrigSeries(_, _, _)
TrigSeries(u2, j, left) ==
    IF left = 0 THEN One
    ELSE Sub(One, Mul(Div(u2, Num((j + 1) * (j + 2))),
                      TrigSeries(u2, j + 2, left - 1)))

\* sin u and cos u for |u| <= pi / 2.
SinT(u) == Mul(u, TrigSeries(Mul(u, u), 1, TrigTerms))

CosT(u) == TrigSeries(Mul(u, u), 0, TrigTerms)

\* For r in [0, 2 pi): an angle in [-pi/2, pi/2] with the same sine.
SinFold(r) ==
    IF Le(r, HalfPi) THEN r
    ELSE IF Le(r, Add(Pi, HalfPi)) THEN Sub(Pi, r)
    ELSE Sub(r, TwoPi)

\* For r in [0, 2 pi): an angle in [0, pi/2] whose cosine is that of r up to
\* the sign CosSign(r).
CosFold(r) ==
    IF Le(r, HalfPi) THEN r
    ELSE IF Le(r, Pi) THEN Sub(Pi, r)
    ELSE IF Le(r, Add(Pi, HalfPi)) THEN Sub(r, Pi)
    ELSE Sub(TwoPi, r)

CosSign(r) ==
    IF Le(r, HalfPi) THEN One
    ELSE IF Le(r, Add(Pi, HalfPi)) THEN Num(-1)
    ELSE One

\* Math.sin and Math.cos.
Sin(x) ==
    IF ~IsNum(x) THEN NaN
    ELSE Mul(IF x.m < 0 THEN Num(-1) ELSE One,
             SinT(SinFold(ReduceAngle(Abs(x)))))

Cos(x) ==
    IF ~IsNum(x) THEN NaN
    ELSE Mul(CosSign(ReduceAngle(Abs(x))), CosT(CosFold(ReduceAngle(Abs(x)))))

\* Math.sinh and Math.cosh.
HalfDifference(p, q) == Div(Sub(p, q), Two)

HalfSum(p, q) == Div(Add(p, q), Two)

Sinh(x) == HalfDifference(Exp(x), Exp(Neg(x)))

Cosh(x) == HalfSum(Exp(x), Exp(Neg(x)))

(***************************************************************************)
(* The binary rounding of s * 1000 (line 6).  Naturals above 32 bits are   *)
(* sequences of BigWidth limbs in base 2^15, least significant first.      *)
(***************************************************************************)
BigBase == 2 ^ 15

BigWidth == 6

SignificandBits == 53

BigInt(n) ==
    [i \in 1..BigWidth |->
        IF i = 1 THEN n % BigBase
        ELSE IF i = 2 THEN (n \div BigBase) % BigBase
        ELSE IF i = 3 THEN n \div (BigBase * BigBase)
        ELSE 0]

\* The limbs i.. of N * c + carry, for c <= BigBase.
RECURSIVE BigMulFrom(_, _, _, _)
BigMulFrom(N, c, i, carry) ==
    IF i > BigWidth THEN <<>>
    ELSE <<(N[i] * c + carry) % BigBase>>
             \o BigMulFrom(N, c, i + 1, (N[i] * c + carry) \div BigBase)

BigMul(N, c) == BigMulFrom(N, c, 1, 0)

\* N * 2^s
RECURSIVE BigShl(_, _)
BigShl(N, s) ==
    IF s >= 15 THEN BigShl(BigMul(N, BigBase), s - 15) ELSE BigMul(N, 2 ^ s)

\* The limbs ..i of N \div c, and N % c, for c <= 10^4; rem is what the
\* limbs above i left.
RECURSIVE BigDivFrom(_, _, _, _)
BigDivFrom(N, c, i, rem) ==
    IF i < 1 THEN <<>>
    ELSE BigDivFrom(N, c, i - 1, (rem * BigBase + N[i]) % c)
             \o <<(rem * BigBase + N[i]) \div c>>

RECURSIVE BigModFrom(_, _, _, _)
BigModFrom(N, c, i, rem) ==
    IF i < 1 THEN rem
    ELSE BigModFrom(N, c, i - 1, (rem * BigBase + N[i]) % c)

BigDiv(N, c) == BigDivFrom(N, c, BigWidth, 0)

BigMod(N, c) == BigModFrom(N, c, BigWidth, 0)

\* The sign of A - B.
RECURSIVE BigCmpFrom(_, _, _)
BigCmpFrom(A, B, i) ==
    IF i < 1 THEN 0
    ELSE IF A[i] # B[i] THEN ISign(A[i] - B[i])
    ELSE BigCmpFrom(A, B, i - 1)

BigCmp(A, B) == BigCmpFrom(A, B, BigWidth)

\* Round to nearest, ties to even: whether the quotient q with remainder rem
\* of a division by div is rounded up.
RoundsUp(rem, div, q) ==
    2 * rem > div \/ (2 * rem = div /\ q[1] % 2 = 1)

BigRounded(q, up) == IF up THEN BigMulFrom(q, 1, 1, 1) ELSE q

\* N / (c1 * c2) rounded to the nearest natural, for c1 * c2 <= 10^7.
BigDivRound(N, c1, c2) ==
    BigRounded(BigDiv(BigDiv(N, c1), c2),
               RoundsUp(BigMod(BigDiv(N, c1), c2) * c1 + BigMod(N, c1),
                        c1 * c2, BigDiv(BigDiv(N, c1), c2)))

\* floor(log2(a / b))
RECURSIVE Log2Ratio(_, _)
Log2Ratio(a, b) ==
    IF a >= 2 * b THEN Log2Ratio(a, 2 * b) + 1
    ELSE IF a < b THEN Log2Ratio(2 * a, b) - 1
    ELSE 0

\* The double nearest m / 10^d is Significand(m, d, s) / 2^s, for the s that
\* gives it SignificandBits bits; 3 <= d <= 7.
BinaryScale(m, d) == (SignificandBits - 1) - Log2Ratio(m, Pow10(d))

Significand(m, d, s) == BigDivRound(BigShl(BigInt(m), s), 1000, Pow10(d - 3))

\* P = significand * 1000 has 62 or 63 bits: the bits its rounding drops.
DroppedBits(P) ==
    IF BigCmp(P, BigShl(BigInt(1), SignificandBits + 9)) < 0 THEN 9 ELSE 10

\* P rounded to SignificandBits bits, as a natural.
RoundedProduct(P, sh) == BigShl(BigDivRound(P, 2 ^ sh, 1), sh)

\* The sign of double(double(m / 10^d) * 1000) - m * 1000 / 10^d.
ProductResidueAt(m, d, s, P) ==
    BigCmp(BigMul(RoundedProduct(P, DroppedBits(P)), Pow10(d - 3)),
           BigShl(BigInt(m), s))

ProductResidueScaled(m, d, s) ==
    ProductResidueAt(m, d, s, BigMul(Significand(m, d, s), 1000))

ProductResidue(m, d) == ProductResidueScaled(m, d, BinaryScale(m, d))


(***************************************************************************)
(* The program: constants and pure helpers                                 *)
(***************************************************************************)
clamp(min, max, v) == MathMin(MathMax(v, min), max)

millisecondsToSeconds(ms) == Div(ms, Num(1000))

\* s * 1000; for s = m * 10^e in [10^-2, 10^3) the binary rounding of the
\* product is recorded too.
secondsToMilliseconds(sec) ==
    IF IsNum(sec) /\ sec.m > 0 /\ sec.e >= -7 /\ sec.e <= -3
    THEN [Mul(sec, Num(1000)) EXCEPT !.u = ProductResidue(sec.m, -sec.e)]
    ELSE Mul(sec, Num(1000))

springDefaults ==
    [stiffness |-> Num(100), damping |-> Num(10), mass |-> Num(1),
     velocity |-> Zero, duration |-> Num(800), bounce |-> Dec(3, 1),
     visualDuration |-> Dec(3, 1),
     restSpeed |-> [granular |-> Dec(1, 2), default |-> Num(2)],
     restDelta |-> [granular |-> Dec(5, 3), default |-> Dec(5, 1)],
     minDuration |-> Dec(1, 2), maxDuration |-> Num(10),
     minDamping |-> Dec(5, 2), maxDamping |-> Num(1)]

durationKeys == {"duration", "bounce"}

physicsKeys == {"stiffness", "damping", "mass"}

\* The keys of an options object.  keyframes is [origin, target]; a key that
\* is absent holds Absent.
OptionKeys ==
    {"stiffness", "damping", "mass", "velocity", "duration", "bounce",
     "visualDuration", "restSpeed", "restDelta", "origin", "target"}

isSpringType(options, keys) ==
    \E key \in keys : options[key] \notin {Undef, Absent}

safeMin == Dec(1, 3)

rootIterations == 12

calcAngularFreq(undampedFreq, dampingRatio) ==
    Mul(undampedFreq, Sqrt(Sub(One, Mul(dampingRatio, dampingRatio))))

(***************************************************************************)
(* findSpring.  Its locals after the clamps (lines 223-244) are the frame  *)
(* fs = [dampingRatio, duration, velocity, mass]; envelope and derivative  *)
(* are the closures of lines 246-279 over that frame.                      *)
(***************************************************************************)
\* A destructuring default (lines 224-227).
Default(v, d) == IF v \in {Undef, Absent} THEN d ELSE v

findSpringFrame(options) ==
    [dampingRatio |->
         clamp(springDefaults.minDamping, springDefaults.maxDamping,
               Sub(One, Default(options.bounce, springDefaults.bounce))),
     duration |->
         clamp(springDefaults.minDuration, springDefaults.maxDuration,
               millisecondsToSeconds(
                   Default(options.duration, springDefaults.duration))),
     velocity |-> Default(options.velocity, springDefaults.velocity),
     mass |-> Default(options.mass, springDefaults.mass)]

\* Lines 249-253 for the exponentialDecay of line 248.
envelopeUnderdamped(f, undampedFreq, exponentialDecay) ==
    Sub(safeMin,
        Mul(Div(Sub(exponentialDecay, f.velocity),
                calcAngularFreq(undampedFreq, f.dampingRatio)),
            Exp(Neg(Mul(exponentialDecay, f.duration)))))

\* Lines 247-254 and 268-272.
envelope(f, undampedFreq) ==
    IF Lt(f.dampingRatio, One)
    THEN envelopeUnderdamped(f, undampedFreq,
                             Mul(undampedFreq, f.dampingRatio))
    ELSE Add(Neg(safeMin),
             Mul(Exp(Mul(Neg(undampedFreq), f.duration)),
                 Add(Mul(Sub(undampedFreq, f.velocity), f.duration), One)))

\* Line 264.
derivativeFactor(f, undampedFreq) ==
    IF Gt(Add(Neg(envelope(f, undampedFreq)), safeMin), Zero)
    THEN Num(-1) ELSE One

\* Lines 259-265 for the delta of lines 257-258.
derivativeUnderdamped(f, undampedFreq, delta) ==
    Div(Mul(derivativeFactor(f, undampedFreq),
            Mul(Sub(Add(Mul(delta, f.velocity), f.velocity),
                    Mul(Mul(Mul(f.dampingRatio, f.dampingRatio),
                            Mul(undampedFreq, undampedFreq)), f.duration)),
                Exp(Neg(delta)))),
        calcAngularFreq(Mul(undampedFreq, undampedFreq), f.dampingRatio))

\* Lines 256-266 and 274-278.
derivative(f, undampedFreq) ==
    IF Lt(f.dampingRatio, One)
    THEN derivativeUnderdamped(f, undampedFreq,
                               Mul(Mul(undampedFreq, f.dampingRatio),
                                   f.duration))
    ELSE Mul(Exp(Mul(Neg(undampedFreq), f.duration)),
             Mul(Sub(f.velocity, undampedFreq),
                 Mul(f.duration, f.duration)))

initialGuess(f) == Div(Num(5), f.duration)

\* One pass of approximateRoot's loop body (line 307).
rootUpdate(f, result) ==
    Sub(result, Div(envelope(f, result), derivative(f, result)))

\* approximateRoot's loop condition (line 306).
rootLoopRuns(i) == i < rootIterations

\* Lines 284-299 without the isNaN test of line 286.
findSpringResultOfAnyRoot(f, undampedFreq) ==
    [stiffness |-> Mul(Mul(undampedFreq, undampedFreq), f.mass),
     damping |->
         Mul(Mul(f.dampingRatio, Two),
             Sqrt(Mul(f.mass, Mul(Mul(undampedFreq, undampedFreq), f.mass)))),
     duration |-> secondsToMilliseconds(f.duration)]

\* What findSpring returns (lines 284-299) for the root it was given.
findSpringResult(f, undampedFreq) ==
    LET duration == secondsToMilliseconds(f.duration)
    IN  IF IsNaN(undampedFreq)
        THEN [stiffness |-> springDefaults.stiffness,
              damping |-> springDefaults.damping,
              duration |-> duration]
        ELSE LET stiffness == Mul(Mul(undampedFreq, undampedFreq), f.mass)
             IN  [stiffness |-> stiffness,
                  damping |-> Mul(Mul(f.dampingRatio, Two),
                                  Sqrt(Mul(f.mass, stiffness))),
                  duration |-> duration]

(***************************************************************************)
(* getSpringOptions                                                        *)
(***************************************************************************)
\* Lines 38-45: the defaults, overwritten by the keys the options hold.
springOptionsInit(options) ==
    [key \in OptionKeys \cup {"isResolvedFromDuration"} |->
        IF key = "isResolvedFromDuration" THEN FALSE
        ELSE IF options[key] # Absent THEN options[key]
        ELSE IF key \in {"velocity", "stiffness", "damping", "mass"}
             THEN springDefaults[key]
        ELSE Absent]

\* Lines 47-50 without the test of the physics keys.
entersDurationBranchAnyPhysics(options) == isSpringType(options, durationKeys)

\* The condition of lines 47-50.
entersDurationBranch(options) ==
    ~isSpringType(options, physicsKeys) /\ isSpringType(options, durationKeys)

\* The condition of line 51.
takesVisualDuration(options) == Truthy(options.visualDuration)

\* Lines 52-65.
visualDurationOptions(options) ==
    LET visualDuration == options.visualDuration
        root == Div(Mul(Two, Pi), Mul(visualDuration, Dec(12, 1)))
        stiffness == Mul(root, root)
        damping == Mul(Mul(Two,
                           clamp(Dec(5, 2), One,
                                 Sub(One, OrElse(options.bounce, Zero)))),
                       Sqrt(stiffness))
    IN  [springOptionsInit(options) EXCEPT
            !.mass = springDefaults.mass,
            !.stiffness = stiffness,
            !.damping = damping]

\* Lines 69-74, for the record findSpring returned.
durationOptions(options, derived) ==
    [springOptionsInit(options) EXCEPT
        !.stiffness = derived.stiffness,
        !.damping = derived.damping,
        !.duration = derived.duration,
        !.mass = springDefaults.mass,
        !.isResolvedFromDuration = TRUE]


(***************************************************************************)
(* spring: the closure constants of lines 91-124 and the three             *)
(* resolveSpring closures of lines 126-169                                 *)
(***************************************************************************)
Null == [k |-> "null", m |-> 0, e |-> 0, u |-> 0]

\* Lines 82-89: the options object of a call spring(first, bounce).
springArguments(a) ==
    IF a.isObject THEN a.object
    ELSE [key \in OptionKeys |->
            CASE key = "visualDuration" -> a.first
              [] key = "origin" -> Zero
              [] key = "target" -> One
              [] key = "bounce" -> a.bounce
              [] OTHER -> Absent]

\* Lines 105-108: what spring passes to getSpringOptions.
springParameter(options) ==
    [options EXCEPT
        !.velocity = Neg(millisecondsToSeconds(OrElse(options.velocity, Zero)))]

\* Lines 91-124 and 172, given what getSpringOptions returned.
springClosure(options, so) ==
    LET origin == options.origin
        target == options.target
        initialDelta == Sub(target, origin)
        isGranularScale == Lt(Abs(initialDelta), Num(5))
    IN  [origin |-> origin,
         target |-> target,
         stiffness |-> so.stiffness,
         damping |-> so.damping,
         mass |-> so.mass,
         duration |-> so.duration,
         isResolvedFromDuration |-> so.isResolvedFromDuration,
         initialVelocity |-> OrElse(so.velocity, Zero),
         dampingRatio |->
             Div(so.damping, Mul(Two, Sqrt(Mul(so.stiffness, so.mass)))),
         initialDelta |-> initialDelta,
         undampedAngularFreq |->
             millisecondsToSeconds(Sqrt(Div(so.stiffness, so.mass))),
         restSpeed |->
             OrElse(options.restSpeed,
                    IF isGranularScale THEN springDefaults.restSpeed.granular
                    ELSE springDefaults.restSpeed.default),
         restDelta |->
             OrElse(options.restDelta,
                    IF isGranularScale THEN springDefaults.restDelta.granular
                    ELSE springDefaults.restDelta.default),
         calculatedDuration |->
             IF so.isResolvedFromDuration /\ Truthy(so.duration)
             THEN so.duration ELSE Null]

\* Lines 130-142 for the angularFreq of line 128.
resolveUnderdampedAt(g, t, angularFreq) ==
    Sub(g.target,
        Mul(Exp(Mul(Mul(Neg(g.dampingRatio), g.undampedAngularFreq), t)),
            Add(Mul(Div(Add(g.initialVelocity,
                            Mul(Mul(g.dampingRatio, g.undampedAngularFreq),
                                g.initialDelta)),
                        angularFreq),
                    Sin(Mul(angularFreq, t))),
                Mul(g.initialDelta, Cos(Mul(angularFreq, t))))))

\* Lines 127-142.
resolveUnderdamped(g, t) ==
    resolveUnderdampedAt(
        g, t, calcAngularFreq(g.undampedAngularFreq, g.dampingRatio))

\* Lines 143-148.
resolveCritical(g, t) ==
    Sub(g.target,
        Mul(Exp(Mul(Neg(g.undampedAngularFreq), t)),
            Add(g.initialDelta,
                Mul(Add(g.initialVelocity,
                        Mul(g.undampedAngularFreq, g.initialDelta)),
                    t))))

\* Lines 154 and 157-167 for the freqForT of line 155.
resolveOverdampedFor(g, t, dampedAngularFreq, freqForT) ==
    Sub(g.target,
        Div(Mul(Exp(Mul(Mul(Neg(g.dampingRatio), g.undampedAngularFreq), t)),
                Add(Mul(Add(g.initialVelocity,
                            Mul(Mul(g.dampingRatio, g.undampedAngularFreq),
                                g.initialDelta)),
                        Sinh(freqForT)),
                    Mul(Mul(dampedAngularFreq, g.initialDelta),
                        Cosh(freqForT)))),
            dampedAngularFreq))

\* Lines 153-168 for the dampedAngularFreq of lines 150-151.
resolveOverdampedAt(g, t, dampedAngularFreq) ==
    resolveOverdampedFor(g, t, dampedAngularFreq,
                         MathMin(Mul(dampedAngularFreq, t), Num(300)))

\* Lines 149-168.
resolveOverdamped(g, t) ==
    resolveOverdampedAt(
        g, t,
        Mul(g.undampedAngularFreq,
            Sqrt(Sub(Mul(g.dampingRatio, g.dampingRatio), One))))

resolveSpring(g, t) ==
    IF Lt(g.dampingRatio, One) THEN resolveUnderdamped(g, t)
    ELSE IF Eq(g.dampingRatio, One) THEN resolveCritical(g, t)
    ELSE resolveOverdamped(g, t)

\* Line 318 for the prevT of line 317.
calcGeneratorVelocityFrom(g, t, current, prevT) ==
    Div(Sub(current, resolveSpring(g, prevT)), Sub(t, prevT))

\* Line 317 without Math.max: the lookback point is t - 5 at every t.
calcGeneratorVelocityUnclamped(g, t, current) ==
    calcGeneratorVelocityFrom(g, t, current, Sub(t, Num(5)))

\* Lines 316-319.
calcGeneratorVelocity(g, t, current) ==
    calcGeneratorVelocityFrom(g, t, current, MathMax(Sub(t, Num(5)), Zero))

\* Lines 177-184: the velocity next compares against restSpeed.
currentVelocity(g, t, current) ==
    IF Lt(g.dampingRatio, One)
    THEN (IF Eq(t, Zero) THEN secondsToMilliseconds(g.initialVelocity)
          ELSE calcGeneratorVelocity(g, t, current))
    ELSE (IF Eq(t, Zero) THEN g.initialVelocity ELSE Zero)

\* Lines 176-195: the value next assigns to state.done.
nextDone(g, t, current) ==
    IF ~g.isResolvedFromDuration
    THEN \* isBelowVelocityThreshold && isBelowDisplacementThreshold
         /\ Le(Abs(currentVelocity(g, t, current)), g.restSpeed)
         /\ Le(Abs(Sub(g.target, current)), g.restDelta)
    ELSE Ge(t, g.duration)

\* Line 197 writing state.value only while the spring moves.
nextValueWhileMoving(g, st1, current) ==
    IF st1.done THEN st1 ELSE [st1 EXCEPT !.value = current]

\* Line 197 without its test of state.done.
nextValueOfTrajectory(g, st1, current) == [st1 EXCEPT !.value = current]

\* Line 197: state.value is assigned from the state.done just written.
nextValue(g, st1, current) ==
    [st1 EXCEPT !.value = IF st1.done THEN g.target ELSE current]

\* Lines 176-197, for the current that line 174 computed.
nextFrom(g, st, time, current) ==
    nextValue(g, [st EXCEPT !.done = nextDone(g, time, current)], current)

\* Lines 173-200: next(t) writes into the state record st and returns it.
next(g, st, time) == nextFrom(g, st, time, resolveSpring(g, time))

\* Lines 173-187: next's argument t and the currentVelocity it compares
\* against restSpeed; a spring resolved from a duration computes none.
nextLocalsAt(g, time) ==
    [t |-> time,
     currentVelocity |->
         IF g.isResolvedFromDuration THEN Undef
         ELSE currentVelocity(g, time, resolveSpring(g, time))]

maxGeneratorDuration == 10000

step == 50

resolution == 30


(***************************************************************************)
(* The calls the model makes                                               *)
(***************************************************************************)
NoOptions == [key \in OptionKeys |-> Absent]

\* { keyframes: [origin, target] }
Keyframes(origin, target) ==
    [NoOptions EXCEPT !.origin = origin, !.target = target]

\* getSpringOptions(object)
DirectCall(object) ==
    [entry |-> "getSpringOptions", isObject |-> TRUE, object |-> object,
     first |-> Undef, bounce |-> Undef]

\* spring(object)
ObjectCall(object) ==
    [entry |-> "spring", isObject |-> TRUE, object |-> object,
     first |-> Undef, bounce |-> Undef]

\* spring(visualDuration, bounce)
ScalarCall(visualDuration, bounce) ==
    [entry |-> "spring", isObject |-> FALSE, object |-> NoOptions,
     first |-> visualDuration, bounce |-> bounce]

\* Options objects that hold each of the seven resolution keys or not, and
\* damping also as a key whose value is undefined.
ResolutionInputs ==
    {[NoOptions EXCEPT !.stiffness = k, !.damping = c, !.mass = m,
                       !.duration = d, !.bounce = b, !.visualDuration = vd,
                       !.velocity = v] :
        k \in {Absent, Num(50)}, c \in {Absent, Undef, Num(5)},
        m \in {Absent, Num(2)}, d \in {Absent, Num(800)},
        b \in {Absent, Dec(3, 1)}, vd \in {Absent, Dec(3, 1)},
        v \in {Absent, Num(3)}}

Physics(k, c, m) ==
    [Keyframes(Zero, One) EXCEPT !.stiffness = k, !.damping = c, !.mass = m]

Timed(d, b) == [Keyframes(Zero, One) EXCEPT !.duration = d, !.bounce = b]

SpringInputs ==
    {Physics(Num(100), Num(10), One),
     Physics(Num(100), Num(20), One),
     Physics(Num(100), Num(30), One),
     [Physics(Num(100), Zero, One) EXCEPT !.restDelta = Dec(1, 5)],
     [Physics(Num(100), Num(10), One) EXCEPT !.velocity = Num(5)],
     [Physics(Num(100), Num(10), One) EXCEPT
         !.target = Num(100), !.restSpeed = Zero, !.restDelta = Zero],
     [Physics(Num(100), Num(10), One) EXCEPT
         !.target = Num(100), !.restSpeed = Num(1000), !.restDelta = Num(200)],
     [Physics(Num(100), Num(10), One) EXCEPT
         !.target = Num(100), !.restSpeed = Dec(5, 3)],
     [Physics(Num(100), Num(10), One) EXCEPT
         !.origin = Dec(1, 1), !.target = Num(999999)],
     Timed(Num(800), Dec(3, 1)),
     Timed(Num(799), Absent),
     Timed(Absent, Dec(3, 1)),
     Timed(Num(5), Dec(3, 1)),
     Timed(Num(20000), Dec(3, 1)),
     Timed(Num(2007), Dec(3, 1)),
     [Timed(Num(1000), Zero) EXCEPT !.velocity = Num(-5000)],
     [Timed(Num(2007), Dec(3, 1)) EXCEPT !.velocity = NegInf],
     [Timed(Num(800), Dec(3, 1)) EXCEPT
         !.restSpeed = Num(1000), !.restDelta = Num(200)],
     [Keyframes(Zero, One) EXCEPT !.visualDuration = Dec(3, 1)],
     [Keyframes(Zero, One) EXCEPT
         !.visualDuration = Dec(3, 1), !.bounce = Dec(3, 1)]}

Calls ==
    {DirectCall(o) : o \in ResolutionInputs}
        \cup {ObjectCall(o) : o \in SpringInputs}
        \cup {ScalarCall(Dec(3, 1), Undef), ScalarCall(Dec(3, 1), Dec(3, 1))}

\* The times at which the callers of the model query next.
QueryTimes ==
    {Zero, Num(3), Num(10), Num(600), Num(650), Num(799), Num(800),
     Num(1000), Num(2007), Num(10000)}

(***************************************************************************)
(* The state                                                               *)
(***************************************************************************)
VARIABLES
    args,               \* the arguments of the call being modelled
    pc,                 \* where the program is
    options,            \* spring's options object (lines 82-89)
    param,              \* the options getSpringOptions was called with
    fs,                 \* findSpring's locals (lines 223-244)
    root,               \* approximateRoot's i and result, and the updates made
    springOptions,      \* what getSpringOptions returned
    gen,                \* the constants the generator closes over
    state,              \* the state record (line 96)
    t,                  \* calcGeneratorDuration's t
    queried,            \* the calls calcGeneratorDuration made: <<t, done>>
    calculatedDuration, \* toString's calculatedDuration
    points,             \* generateLinearEasing's points
    sampled,            \* the times generateLinearEasing's calls passed to next
    easing,             \* what toString last built its string from
    last,               \* the call made last at top level
    earliestDone,       \* the least t at which a call next(t) of the
                        \* generator's user reported done, since the
                        \* generator was built or toString last called
    nextLocals          \* next's t and currentVelocity at its last call

vars ==
    <<args, pc, options, param, fs, root, springOptions, gen, state, t,
      queried, calculatedDuration, points, sampled, easing, last,
      earliestDone, nextLocals>>

NoFrame ==
    [dampingRatio |-> Undef, duration |-> Undef, velocity |-> Undef,
     mass |-> Undef]

NoRoot == [i |-> 0, result |-> Undef, updates |-> 0]

NoSpringOptions ==
    [key \in OptionKeys \cup {"isResolvedFromDuration"} |->
        IF key = "isResolvedFromDuration" THEN FALSE ELSE Undef]

NoGenerator == springClosure(NoOptions, NoSpringOptions)

NoState == [done |-> FALSE, value |-> Undef]

NoCall == [op |-> "none", t |-> Undef]

NoLocals == [t |-> Undef, currentVelocity |-> Undef]

Init ==
    /\ args \in Calls
    /\ pc = "start"
    /\ options = NoOptions
    /\ param = NoOptions
    /\ fs = NoFrame
    /\ root = NoRoot
    /\ springOptions = NoSpringOptions
    /\ gen = NoGenerator
    /\ state = NoState
    /\ t = Zero
    /\ queried = <<>>
    /\ calculatedDuration = Undef
    /\ points = <<>>
    /\ sampled = <<>>
    /\ easing = <<>>
    /\ last = NoCall
    /\ earliestDone = Undef
    /\ nextLocals = NoLocals

(***************************************************************************)
(* getSpringOptions, entered from spring or called directly                *)
(***************************************************************************)
\* The body of getSpringOptions up to the call of findSpring (lines 38-67):
\* it returns at once, or enters findSpring and approximateRoot.
Resolve(o) ==
    /\ param' = o
    /\ IF entersDurationBranch(o) /\ ~takesVisualDuration(o)
       THEN /\ fs' = findSpringFrame(o)
            /\ root' = [i |-> 1, result |-> initialGuess(findSpringFrame(o)),
                        updates |-> 0]
            /\ springOptions' = springOptions
            /\ pc' = "approximateRoot"
       ELSE /\ springOptions' =
                   IF entersDurationBranch(o) THEN visualDurationOptions(o)
                   ELSE springOptionsInit(o)
            /\ pc' = "resolved"
            /\ UNCHANGED <<fs, root>>

GetSpringOptionsCall ==
    /\ pc = "start"
    /\ args.entry = "getSpringOptions"
    /\ Resolve(args.object)
    /\ UNCHANGED <<args, options, gen, state, t, queried, calculatedDuration,
                   points, sampled, easing, last, earliestDone, nextLocals>>

\* Lines 82-108 of spring.
SpringCall ==
    /\ pc = "start"
    /\ args.entry = "spring"
    /\ options' = springArguments(args)
    /\ state' = [done |-> FALSE, value |-> springArguments(args).origin]
    /\ Resolve(springParameter(springArguments(args)))
    /\ UNCHANGED <<args, gen, t, queried, calculatedDuration, points,
                   sampled, easing, last, earliestDone, nextLocals>>

\* One pass of approximateRoot's loop (lines 306-308).
RootStep ==
    /\ pc = "approximateRoot"
    /\ rootLoopRuns(root.i)
    /\ root' = [i |-> root.i + 1, result |-> rootUpdate(fs, root.result),
                updates |-> root.updates + 1]
    /\ UNCHANGED <<args, pc, options, param, fs, springOptions, gen, state,
                   t, queried, calculatedDuration, points, sampled, easing,
                   last, earliestDone, nextLocals>>

\* approximateRoot returns, then findSpring, then getSpringOptions
\* (lines 309, 284-299, 69-78).
RootReturn ==
    /\ pc = "approximateRoot"
    /\ ~rootLoopRuns(root.i)
    /\ springOptions' = durationOptions(param, findSpringResult(fs, root.result))
    /\ pc' = "resolved"
    /\ UNCHANGED <<args, options, param, fs, root, gen, state, t, queried,
                   calculatedDuration, points, sampled, easing, last,
                   earliestDone, nextLocals>>

\* The rest of spring (lines 110-218): the generator is built and returned.
SpringReturn ==
    /\ pc = "resolved"
    /\ args.entry = "spring"
    /\ gen' = springClosure(options, springOptions)
    /\ pc' = "ready"
    /\ UNCHANGED <<args, options, param, fs, root, springOptions, state, t,
                   queried, calculatedDuration, points, sampled, easing,
                   last, earliestDone, nextLocals>>

(***************************************************************************)
(* The generator: next and toString                                        *)
(***************************************************************************)
\* generator.next(time), called by the generator's user.
NextCall(time) ==
    /\ pc = "ready"
    /\ state' = next(gen, state, time)
    /\ nextLocals' = nextLocalsAt(gen, time)
    /\ last' = [op |-> "next", t |-> time]
    /\ earliestDone' =
           IF state'.done /\ (earliestDone = Undef \/ Lt(time, earliestDone))
           THEN time ELSE earliestDone
    /\ UNCHANGED <<args, pc, options, param, fs, root, springOptions, gen, t,
                   queried, calculatedDuration, points, sampled, easing>>

\* generator.toString() enters calcGeneratorDuration (lines 202-203, 340-341).
ToStringCall ==
    /\ pc = "ready"
    /\ pc' = "calcGeneratorDuration"
    /\ t' = Zero
    /\ queried' = <<>>
    /\ last' = [op |-> "toString", t |-> Undef]
    /\ earliestDone' = Undef
    /\ nextLocals' = NoLocals
    /\ UNCHANGED <<args, options, param, fs, root, springOptions, gen, state,
                   calculatedDuration, points, sampled, easing>>

\* Line 342 with <= for <.
durationLoopRunsAtCeiling(time) == Le(time, Num(maxGeneratorDuration))

\* calcGeneratorDuration's loop condition (line 342).
durationLoopRuns(time) == Lt(time, Num(maxGeneratorDuration))

\* One pass of calcGeneratorDuration's loop (lines 342-347); on break, and
\* when the loop ends, toString takes the minimum (lines 202-205) and enters
\* generateLinearEasing.
DurationStep ==
    /\ pc = "calcGeneratorDuration"
    /\ IF durationLoopRuns(t)
       THEN /\ state' = next(gen, state, t)
            /\ nextLocals' = nextLocalsAt(gen, t)
            /\ queried' = Append(queried, <<t, state'.done>>)
            /\ IF state'.done
               THEN /\ pc' = "generateLinearEasing"
                    /\ calculatedDuration' =
                           MathMin(t, Num(maxGeneratorDuration))
                    /\ points' = <<>>
                    /\ sampled' = <<>>
                    /\ t' = t
               ELSE /\ t' = Add(t, Num(step))
                    /\ UNCHANGED <<pc, calculatedDuration, points, sampled>>
       ELSE /\ pc' = "generateLinearEasing"
            /\ calculatedDuration' = MathMin(t, Num(maxGeneratorDuration))
            /\ points' = <<>>
            /\ sampled' = <<>>
            /\ UNCHANGED <<state, queried, t, nextLocals>>
    /\ UNCHANGED <<args, options, param, fs, root, springOptions, gen, easing,
                   last, earliestDone>>

\* The time of generateLinearEasing's sample i (lines 209 and 354).
sampleTime(duration, i) == Mul(duration, Div(Num(i), Num(resolution - 1)))

\* One pass of generateLinearEasing's loop (lines 353-355).
SampleStep ==
    /\ pc = "generateLinearEasing"
    /\ Len(points) < resolution
    /\ state' = next(gen, state, sampleTime(calculatedDuration, Len(points)))
    /\ nextLocals' =
           nextLocalsAt(gen, sampleTime(calculatedDuration, Len(points)))
    /\ points' = Append(points, state'.value)
    /\ sampled' = Append(sampled, sampleTime(calculatedDuration, Len(points)))
    /\ UNCHANGED <<args, pc, options, param, fs, root, springOptions, gen, t,
                   queried, calculatedDuration, easing, last, earliestDone>>

\* generateLinearEasing returns its points and toString its string
\* (lines 356, 214).
ToStringReturn ==
    /\ pc = "generateLinearEasing"
    /\ ~(Len(points) < resolution)
    /\ easing' = points
    /\ pc' = "ready"
    /\ UNCHANGED <<args, options, param, fs, root, springOptions, gen, state,
                   t, queried, calculatedDuration, points, sampled, last,
                   earliestDone, nextLocals>>

Next ==
    \/ GetSpringOptionsCall
    \/ SpringCall
    \/ RootStep
    \/ RootReturn
    \/ SpringReturn
    \/ \E time \in QueryTimes : NextCall(time)
    \/ ToStringCall
    \/ DurationStep
    \/ SampleStep
    \/ ToStringReturn

Spec == Init /\ [][Next]_vars

\* calcGeneratorDuration's loop is sequential code: once entered it goes on
\* running until it is left.  This is weak fairness of DurationStep, written
\* out: a DurationStep changes vars and is enabled exactly when pc is
\* "calcGeneratorDuration".
FairSpec ==
    /\ Spec
    /\ \/ []<>(pc # "calcGeneratorDuration")
       \/ []<><<DurationStep>>_vars

(***************************************************************************)
(* The properties                                                          *)
(***************************************************************************)
\* getSpringOptions has returned (or spring has gone on from its return).
Returned == pc \notin {"start", "approximateRoot"}

VisualDurationAlwaysShortcut ==
    (Returned /\ ~isSpringType(param, physicsKeys)
              /\ Truthy(param.visualDuration)) =>
        /\ springOptions.stiffness =
               Mul(Div(Mul(Two, Pi), Mul(param.visualDuration, Dec(12, 1))),
                   Div(Mul(Two, Pi), Mul(param.visualDuration, Dec(12, 1))))
        /\ springOptions.damping =
               Mul(Mul(Two, clamp(Dec(5, 2), One,
                                  Sub(One, OrElse(param.bounce, Zero)))),
                   Sqrt(springOptions.stiffness))
        /\ springOptions.mass = One
        /\ springOptions.isResolvedFromDuration = FALSE

\* spring was called with duration or bounce, no physics key and no
\* visualDuration, and has returned its generator.
DurationSpring ==
    /\ pc = "ready"
    /\ ~isSpringType(param, physicsKeys)
    /\ isSpringType(param, durationKeys)
    /\ ~Truthy(param.visualDuration)

\* The requested duration (800 when none is given) clamped to [10, 10000].
RequestedDuration ==
    clamp(Num(10), Num(10000), Default(param.duration, Num(800)))

\* C3: a spring built from duration or bounce, with no physics key and no
\* visualDuration, has isResolvedFromDuration true, and next(t).done is true
\* exactly when t is at least the requested duration clamped to
\* [10, 10000] ms, whatever restSpeed, restDelta, position and velocity are.
DoneAtRequestedDuration ==
    DurationSpring =>
        /\ gen.isResolvedFromDuration
        /\ last.op = "next" =>
               (state.done <=> Ge(last.t, RequestedDuration))

\* C4: done is monotonic in the query time: once a call next(t) of a
\* generator has reported done, every call next(t') with t' >= t reports
\* done too.
DoneIsMonotonic ==
    (pc = "ready" /\ last.op = "next" /\ earliestDone # Undef
                  /\ Ge(last.t, earliestDone)) => state.done

\* toString has returned and nothing has been called since.
ToStringReturned == pc = "ready" /\ last.op = "toString"

\* C5, as claimed: the curve of toString holds 30 samples, the first is
\* position(0) and equals origin, and the last is position(D), the value of
\* the trajectory function at the estimated duration D.
CurveEndsOnTrajectory ==
    ToStringReturned =>
        /\ Len(easing) = 30
        /\ easing[1] = resolveSpring(gen, Zero)
        /\ easing[1] = gen.origin
        /\ easing[30] = resolveSpring(gen, calculatedDuration)

\* C5, amended: the curve of toString holds exactly 30 samples, taken in
\* order of time at t_i = D * (i / 29), from 0 to the estimated duration D.
\* Sample i is next(t_i).value: target where next reports done, the
\* trajectory's position(t_i) elsewhere.  So the first sample is target when
\* the spring is done at t = 0 and otherwise position(0), which for a finite
\* initial velocity is target - (target - origin) as the arithmetic rounds
\* it; the last sample is target when next reports done at D, as it does
\* whenever the search for D stopped on done, and position(D) only
\* otherwise.
CurveSamplesNext ==
    ToStringReturned =>
        /\ Len(easing) = 30
        /\ Len(sampled) = 30
        /\ \A i \in 1..30 :
               sampled[i] = Mul(calculatedDuration, Div(Num(i - 1), Num(29)))
        /\ \A i \in 1..29 : Le(sampled[i], sampled[i + 1])
        /\ sampled[1] = Zero
        /\ sampled[30] = calculatedDuration
        /\ easing[1] =
               IF queried[1][2] THEN gen.target ELSE resolveSpring(gen, Zero)
        /\ IsNum(gen.initialVelocity) =>
               resolveSpring(gen, Zero) =
                   Sub(gen.target, Sub(gen.target, gen.origin))
        /\ queried[Len(queried)][2] => easing[30] = gen.target
        /\ easing[30] =
               IF nextDone(gen, calculatedDuration,
                           resolveSpring(gen, calculatedDuration))
               THEN gen.target
               ELSE resolveSpring(gen, calculatedDuration)

\* C5's case: a curve over a duration D > 0 that starts at origin and whose
\* last sample is target although the trajectory is elsewhere at D.
CurveSnapsToTarget ==
    /\ ToStringReturned
    /\ Gt(calculatedDuration, Zero)
    /\ easing[1] = gen.origin
    /\ easing[30] = gen.target
    /\ resolveSpring(gen, calculatedDuration) # gen.target

\* What calcGeneratorDuration has done so far, or did in the last toString:
\* at most 200 calls of next, at t = 0, 50, 100, ... in this order, none but
\* the last of which reported done; and once it has returned, its result is
\* the t of the call that reported done, a multiple of 50 below 10000, or
\* exactly 10000 after 200 calls without done, and toString samples within
\* [0, 10000].
DurationSearchBounded ==
    /\ Len(queried) <= 200
    /\ \A i \in 1..Len(queried) : queried[i][1] = Num(50 * (i - 1))
    /\ \A i \in 1..(Len(queried) - 1) : ~queried[i][2]
    /\ (pc \in {"generateLinearEasing", "ready"} /\ queried # <<>>) =>
           /\ IF queried[Len(queried)][2]
              THEN /\ calculatedDuration = queried[Len(queried)][1]
                   /\ Lt(calculatedDuration, Num(10000))
              ELSE /\ calculatedDuration = Num(10000)
                   /\ Len(queried) = 200
           /\ \A i \in 1..Len(sampled) :
                  Le(Zero, sampled[i]) /\ Le(sampled[i], Num(10000))

\* C6: for every generator, one that is never done included,
\* calcGeneratorDuration terminates, after at most 200 calls of next at
\* t = 0, 50, 100, ... in increasing order, and returns the least multiple
\* of 50 below 10000 at which next reported done, or exactly 10000 when
\* there is none; toString's sampling window lies within [0, 10000] ms.
DurationSearchTerminates ==
    /\ []DurationSearchBounded
    /\ (pc = "calcGeneratorDuration") ~> (pc = "generateLinearEasing")

\* C6's case: a velocity-settled generator that was not done at any of the
\* 200 times queried, so that the search returned the ceiling.
DurationSearchHitsCeiling ==
    /\ pc = "generateLinearEasing"
    /\ ~gen.isResolvedFromDuration
    /\ Len(queried) = 200
    /\ ~queried[200][2]
    /\ calculatedDuration = Num(10000)

\* approximateRoot has returned.
RootReturned == Returned /\ root.i > 0

\* C7: approximateRoot applies the Newton-Raphson update exactly 12 times to
\* its initial guess, whatever the input, and returns the 12th iterate.
TwelveNewtonUpdates == RootReturned => root.updates = 12

\* C8: next compares against the restSpeed and the restDelta the caller
\* supplied, the value 0 included, and where the caller supplied none
\* against 0.01 and 0.005 when |target - origin| < 5 and against 2 and 0.5
\* when |target - origin| >= 5.
ThresholdsAsSupplied ==
    pc = "ready" =>
        /\ gen.restSpeed =
               IF options.restSpeed \notin {Undef, Absent}
               THEN options.restSpeed
               ELSE IF Lt(Abs(Sub(options.target, options.origin)), Num(5))
                    THEN Dec(1, 2) ELSE Num(2)
        /\ gen.restDelta =
               IF options.restDelta \notin {Undef, Absent}
               THEN options.restDelta
               ELSE IF Lt(Abs(Sub(options.target, options.origin)), Num(5))
                    THEN Dec(5, 3) ELSE Dec(5, 1)

FreshState == [done |-> FALSE, value |-> gen.origin]

\* C10: whatever calls of next and toString came before, a call next(t)
\* leaves in the state record, and so reports, the value and done it
\* reports when it is the first call on the generator; this holds for the
\* calls toString makes too.
NextIgnoresEarlierCalls ==
    /\ (pc = "ready" /\ last.op = "next") =>
           state = next(gen, FreshState, last.t)
    /\ (pc = "calcGeneratorDuration" /\ queried # <<>>) =>
           state = next(gen, FreshState, queried[Len(queried)][1])
    /\ (pc = "generateLinearEasing" /\ sampled # <<>>) =>
           state = next(gen, FreshState, sampled[Len(sampled)])

\* C10's case: next reports a moving spring after toString was called and
\* after an earlier call of next left done = true in the state record.
NextAfterDoneAndToString ==
    /\ pc = "ready"
    /\ last.op = "next"
    /\ easing # <<>>
    /\ earliestDone # Undef
    /\ ~state.done
    /\ state.value # gen.target

\* next was last called on an underdamped generator that settles by
\* velocity.
UnderdampedVelocityCall ==
    /\ pc \in {"ready", "calcGeneratorDuration", "generateLinearEasing"}
    /\ nextLocals # NoLocals
    /\ ~gen.isResolvedFromDuration
    /\ Lt(gen.dampingRatio, One)

\* (position(tm) - position(prevT)) / divisor
PositionDifference(tm, prevT, divisor) ==
    Div(Sub(resolveSpring(gen, tm), resolveSpring(gen, prevT)), divisor)

\* The velocity a call next(0) uses: the initial velocity, per millisecond.
VelocityAtZero == secondsToMilliseconds(gen.initialVelocity)

\* C11 as stated: for an underdamped spring that settles by velocity, the
\* velocity next(t) compares against restSpeed is, at every t > 0 and so
\* for 0 < t < 5 too, (position(t) - position(t - 5)) / 5; at t = 0 it is
\* the initial velocity.
VelocityIsFiveMsDifference ==
    UnderdampedVelocityCall =>
        nextLocals.currentVelocity =
            IF Eq(nextLocals.t, Zero) THEN VelocityAtZero
            ELSE PositionDifference(nextLocals.t,
                                    Sub(nextLocals.t, Num(5)), Num(5))

\* C11, amended: the lookback point is max(t - 5, 0) and the divisor is t
\* less the lookback point, so for 0 < t < 5 the velocity is
\* (position(t) - position(0)) / t; at t = 0 it is the initial velocity
\* per millisecond.  This velocity is what decides done with restSpeed.
VelocityIsClampedDifference ==
    UnderdampedVelocityCall =>
        /\ nextLocals.currentVelocity =
               IF Eq(nextLocals.t, Zero) THEN VelocityAtZero
               ELSE PositionDifference(
                        nextLocals.t,
                        MathMax(Sub(nextLocals.t, Num(5)), Zero),
                        Sub(nextLocals.t,
                            MathMax(Sub(nextLocals.t, Num(5)), Zero)))
        /\ state.done <=>
               /\ Le(Abs(nextLocals.currentVelocity), gen.restSpeed)
               /\ Le(Abs(Sub(gen.target, resolveSpring(gen, nextLocals.t))),
                     gen.restDelta)

\* C11's case: next was called at a t between 0 and 5, and the velocity it
\* used is not the difference over the five milliseconds before t.
VelocityWithinFiveMs ==
    /\ UnderdampedVelocityCall
    /\ Lt(Zero, nextLocals.t)
    /\ Lt(nextLocals.t, Num(5))
    /\ IsNum(nextLocals.currentVelocity)
    /\ nextLocals.currentVelocity #
           PositionDifference(nextLocals.t, Sub(nextLocals.t, Num(5)),
                              Num(5))

=============================================================================
